---------------------------- MODULE Spec2Model ----------------------------
(***************************************************************************)
(* Mergington High School activities API (src/src/app.py).                 *)
(*                                                                         *)
(* The state is the MongoDB collection `activities` (a list of documents   *)
(* in insertion order) and the requests the process is serving.  Every     *)
(* handler is cut at its awaits on the store: signup_for_activity and      *)
(* unregister_from_activity each do one find_one (followed by their local  *)
(* validation) and, when validation passes, one update_one.  The store     *)
(* executes each of these calls atomically; between the two calls of one   *)
(* request the event loop may run any step of any other request.           *)
(***************************************************************************)
EXTENDS Naturals, Sequences, FiniteSets

(***************************************************************************)
(* Bounds of the model.                                                    *)
(***************************************************************************)
\* Number of requests the model follows (they may all be in flight at once).
MaxRequests == 3

\* Request inputs: one stored activity and one name no document carries;
\* one email of the seed data and one email that is not in it.
ActivityNames == {"Math Olympiad", "Unknown Club"}
Emails == {"charlotte@mergington.edu", "new@mergington.edu"}

Requests == 1..MaxRequests

(***************************************************************************)
(* initial_activities: the documents seed_data inserts, in the order of    *)
(* the dict (the storage-internal _id is left out).                        *)
(***************************************************************************)
initial_activities ==
  << [name |-> "Chess Club",
      description |-> "Learn strategies and compete in chess tournaments",
      schedule |-> "Fridays, 3:30 PM - 5:00 PM",
      max_participants |-> 12,
      participants |-> <<"michael@mergington.edu", "daniel@mergington.edu">>],
     [name |-> "Programming Class",
      description |-> "Learn programming fundamentals and build software projects",
      schedule |-> "Tuesdays and Thursdays, 3:30 PM - 4:30 PM",
      max_participants |-> 20,
      participants |-> <<"emma@mergington.edu", "sophia@mergington.edu">>],
     [name |-> "Gym Class",
      description |-> "Physical education and sports activities",
      schedule |-> "Mondays, Wednesdays, Fridays, 2:00 PM - 3:00 PM",
      max_participants |-> 30,
      participants |-> <<"john@mergington.edu", "olivia@mergington.edu">>],
     [name |-> "Soccer Team",
      description |-> "Join the school soccer team and compete in local leagues",
      schedule |-> "Wednesdays and Fridays, 4:00 PM - 5:30 PM",
      max_participants |-> 18,
      participants |-> <<"lucas@mergington.edu", "mia@mergington.edu">>],
     [name |-> "Basketball Club",
      description |-> "Practice basketball skills and play friendly matches",
      schedule |-> "Tuesdays, 5:00 PM - 6:30 PM",
      max_participants |-> 15,
      participants |-> <<"liam@mergington.edu", "ava@mergington.edu">>],
     [name |-> "Art Club",
      description |-> "Explore painting, drawing, and other visual arts",
      schedule |-> "Thursdays, 3:30 PM - 5:00 PM",
      max_participants |-> 16,
      participants |-> <<"noah@mergington.edu", "isabella@mergington.edu">>],
     [name |-> "Drama Society",
      description |-> "Participate in school plays and drama workshops",
      schedule |-> "Mondays, 4:00 PM - 5:30 PM",
      max_participants |-> 20,
      participants |-> <<"amelia@mergington.edu", "benjamin@mergington.edu">>],
     [name |-> "Math Olympiad",
      description |-> "Prepare for math competitions and solve challenging problems",
      schedule |-> "Wednesdays, 3:30 PM - 5:00 PM",
      max_participants |-> 10,
      participants |-> <<"charlotte@mergington.edu", "elijah@mergington.edu">>],
     [name |-> "Debate Club",
      description |-> "Develop public speaking and argumentation skills",
      schedule |-> "Fridays, 4:00 PM - 5:30 PM",
      max_participants |-> 14,
      participants |-> <<"jack@mergington.edu", "harper@mergington.edu">>] >>

(***************************************************************************)
(* Sequence helpers for the list operations of the handlers.               *)
(***************************************************************************)
\* Python's `email in activity["participants"]`.
Contains(list, x) == \E i \in DOMAIN list : list[i] = x

\* The list without every occurrence of x, order kept.
Without(list, x) == SelectSeq(list, LAMBDA y : y # x)

\* How many times x occurs in the list.
Occurrences(list, x) == Cardinality({i \in DOMAIN list : list[i] = x})

(***************************************************************************)
(* The store's operations as the handlers call them.                       *)
(***************************************************************************)
\* count_documents({})
CountDocuments(coll) == Len(coll)

\* Positions of the documents matching the filter {"name": activity_name}.
Matching(coll, activity_name) ==
  {i \in DOMAIN coll : coll[i].name = activity_name}

\* The first matching position (the document find_one and update_one take).
FirstMatch(coll, activity_name) ==
  CHOOSE i \in Matching(coll, activity_name) :
    \A j \in Matching(coll, activity_name) : i <= j

\* find_one({"name": activity_name}): <<>> for None, else <<document>>.
FindOne(coll, activity_name) ==
  IF Matching(coll, activity_name) = {}
  THEN << >>
  ELSE << coll[FirstMatch(coll, activity_name)] >>

\* insert_one(activity)
InsertOne(coll, activity) == Append(coll, activity)

\* The loop `for activity in initial_activities.values(): insert_one(activity)`.
RECURSIVE InsertAll(_, _)
InsertAll(coll, docs) ==
  IF docs = << >>
  THEN coll
  ELSE InsertAll(InsertOne(coll, Head(docs)), Tail(docs))

\* Mutant: $addToSet in place of $push (an email already present changes
\* nothing and the update reports no modified document).
UpdateOnePushAsAddToSet(coll, activity_name, email) ==
  IF Matching(coll, activity_name) = {}
  THEN [coll |-> coll, modified_count |-> 0]
  ELSE LET i == FirstMatch(coll, activity_name) IN
       IF Contains(coll[i].participants, email)
       THEN [coll |-> coll, modified_count |-> 0]
       ELSE [coll |-> [coll EXCEPT ![i].participants = Append(@, email)],
             modified_count |-> 1]

\* update_one({"name": activity_name}, {"$push": {"participants": email}}):
\* the first matching document gets email appended (a push always modifies
\* the document it matches); no match modifies nothing.
UpdateOnePush(coll, activity_name, email) ==
  IF Matching(coll, activity_name) = {}
  THEN [coll |-> coll, modified_count |-> 0]
  ELSE LET i == FirstMatch(coll, activity_name) IN
       [coll |-> [coll EXCEPT ![i].participants = Append(@, email)],
        modified_count |-> 1]

\* Mutant: the update reports the matched count (1 whenever a document
\* matched) instead of the modified count.
UpdateOnePullMatchedCount(coll, activity_name, email) ==
  IF Matching(coll, activity_name) = {}
  THEN [coll |-> coll, modified_count |-> 0]
  ELSE LET i == FirstMatch(coll, activity_name) IN
       [coll |-> [coll EXCEPT ![i].participants = Without(@, email)],
        modified_count |-> 1]

\* Mutant: the filter is missing (update_one({}, ...)), so the pull goes
\* to the first document of the collection.
UpdateOnePullNoFilter(coll, activity_name, email) ==
  IF coll = << >>
  THEN [coll |-> coll, modified_count |-> 0]
  ELSE IF Contains(coll[1].participants, email)
  THEN [coll |-> [coll EXCEPT ![1].participants = Without(@, email)],
        modified_count |-> 1]
  ELSE [coll |-> coll, modified_count |-> 0]

\* update_one({"name": activity_name}, {"$pull": {"participants": email}}):
\* every occurrence of email leaves the first matching document's list; the
\* document counts as modified only when its list changed.
UpdateOnePull(coll, activity_name, email) ==
  IF Matching(coll, activity_name) = {}
  THEN [coll |-> coll, modified_count |-> 0]
  ELSE LET i == FirstMatch(coll, activity_name) IN
       IF Contains(coll[i].participants, email)
       THEN [coll |-> [coll EXCEPT ![i].participants = Without(@, email)],
             modified_count |-> 1]
       ELSE [coll |-> coll, modified_count |-> 0]

(***************************************************************************)
(* Responses.  status 0 means "validation passed, no response yet".        *)
(***************************************************************************)
Response(status, detail) == [status |-> status, detail |-> detail]
NoResponse == Response(0, "")

\* Mutant: the capacity check runs before the duplicate check.
SignupValidateCapacityFirst(found, email) ==
  IF found = << >>
  THEN Response(404, "Activity not found")
  ELSE IF Len(found[1].participants) >= found[1].max_participants
  THEN Response(400, "Max participants reached")
  ELSE IF Contains(found[1].participants, email)
  THEN Response(400, "Student already signed up")
  ELSE NoResponse

\* Mutant: the capacity check is off by one (> in place of >=).
SignupValidateOffByOne(found, email) ==
  IF found = << >>
  THEN Response(404, "Activity not found")
  ELSE IF Contains(found[1].participants, email)
  THEN Response(400, "Student already signed up")
  ELSE IF Len(found[1].participants) > found[1].max_participants
  THEN Response(400, "Max participants reached")
  ELSE NoResponse

\* Mutant: the duplicate check is missing.
SignupValidateNoDuplicateCheck(found, email) ==
  IF found = << >>
  THEN Response(404, "Activity not found")
  ELSE IF Len(found[1].participants) >= found[1].max_participants
  THEN Response(400, "Max participants reached")
  ELSE NoResponse

\* signup_for_activity, the checks between find_one and update_one.
SignupValidate(found, email) ==
  IF found = << >>
  THEN Response(404, "Activity not found")
  ELSE IF Contains(found[1].participants, email)
  THEN Response(400, "Student already signed up")
  ELSE IF Len(found[1].participants) >= found[1].max_participants
  THEN Response(400, "Max participants reached")
  ELSE NoResponse

\* Mutant: the membership check is missing.
UnregisterValidateNoMembership(found, email) ==
  IF found = << >>
  THEN Response(404, "Activity not found")
  ELSE NoResponse

\* unregister_from_activity, the checks between find_one and update_one.
UnregisterValidate(found, email) ==
  IF found = << >>
  THEN Response(404, "Activity not found")
  ELSE IF ~Contains(found[1].participants, email)
  THEN Response(400, "Student not registered")
  ELSE NoResponse

\* The response after update_one, from result.modified_count.
SignupResult(modified_count) ==
  IF modified_count = 0
  THEN Response(500, "Failed to update activity")
  ELSE Response(200, "Signed up")

UnregisterResult(modified_count) ==
  IF modified_count = 0
  THEN Response(500, "Failed to update activity")
  ELSE Response(200, "Unregistered")

(***************************************************************************)
(* State.                                                                  *)
(***************************************************************************)
VARIABLES
  store,       \* activities_collection: the documents, in insertion order
  started,     \* TRUE once the startup hook seed_data has completed
  requests,    \* per request: where its handler stands and what it holds
  writesSeen,  \* history: per request, the requests whose update_one ran
               \* between its find_one and its own update_one
  chain        \* history: the run of consecutive steps "signup reads,
               \* signup writes, unregister reads, unregister writes" of one
               \* activity and email that is under way, if any

vars == << store, started, requests, writesSeen, chain >>

\* A request the process has not received yet.
Idle ==
  [pc |-> "idle", op |-> "", activity_name |-> "", email |-> "",
   activity |-> << >>, status |-> 0, detail |-> ""]

NoChain == [stage |-> 0, signup |-> 0, unregister |-> 0, before |-> << >>]

\* A store left by an earlier run of the process: the seed data after
\* charlotte unregistered from Math Olympiad and eight other students
\* signed up for it one after another (9 of its 10 places are taken).
PersistedStore ==
  [initial_activities EXCEPT ![8].participants =
     << "elijah@mergington.edu",
        "s1@mergington.edu", "s2@mergington.edu", "s3@mergington.edu",
        "s4@mergington.edu", "s5@mergington.edu", "s6@mergington.edu",
        "s7@mergington.edu", "s8@mergington.edu" >>]

\* The process starts against an empty database or one an earlier run left.
Init ==
  /\ store \in {<< >>, PersistedStore}
  /\ started = FALSE
  /\ requests = [r \in Requests |-> Idle]
  /\ writesSeen = [r \in Requests |-> {}]
  /\ chain = NoChain

Pending(r) == requests[r].pc = "pending"
Done(r) == requests[r].pc = "done"

\* Requests are numbered in the order the process receives them.
NextRequest(r) ==
  /\ requests[r].pc = "idle"
  /\ \A s \in Requests : s < r => requests[s].pc # "idle"

(***************************************************************************)
(* seed_data: the startup hook.  It runs when a process starts, before     *)
(* that process serves a request; a process that starts again (after the   *)
(* requests in flight have been answered) runs it again.                   *)
(***************************************************************************)
\* Mutant: the emptiness check is missing.
SeedStoreUnconditional(coll) == InsertAll(coll, initial_activities)

\* The store seed_data leaves.
SeedStore(coll) ==
  IF CountDocuments(coll) = 0
  THEN InsertAll(coll, initial_activities)
  ELSE coll

seed_data ==
  /\ \A r \in Requests : ~Pending(r)
  /\ store' = SeedStore(store)
  /\ started' = TRUE
  /\ chain' = NoChain
  /\ UNCHANGED << requests, writesSeen >>

(***************************************************************************)
(* signup_for_activity                                                     *)
(***************************************************************************)
\* Lines 132-142: find_one, then the three checks.
SignupRead(r, activity_name, email) ==
  /\ started
  /\ NextRequest(r)
  /\ LET found == FindOne(store, activity_name)
         resp == SignupValidate(found, email) IN
     /\ requests' = [requests EXCEPT ![r] =
          [pc |-> IF resp = NoResponse THEN "pending" ELSE "done",
           op |-> "signup", activity_name |-> activity_name, email |-> email,
           activity |-> found, status |-> resp.status, detail |-> resp.detail]]
     /\ chain' = IF resp = NoResponse
                 THEN [stage |-> 1, signup |-> r, unregister |-> 0,
                       before |-> store]
                 ELSE NoChain
  /\ UNCHANGED << store, started, writesSeen >>

\* Every other request between its read and its write has now seen r write.
NoteWrite(r) ==
  [s \in Requests |->
     IF s # r /\ Pending(s) THEN writesSeen[s] \cup {r} ELSE writesSeen[s]]

\* Lines 145-153: update_one with $push, then the response.
SignupWrite(r) ==
  /\ Pending(r)
  /\ requests[r].op = "signup"
  /\ LET res == UpdateOnePush(store, requests[r].activity_name, requests[r].email)
         resp == SignupResult(res.modified_count) IN
     /\ store' = res.coll
     /\ requests' = [requests EXCEPT ![r].pc = "done",
                                     ![r].status = resp.status,
                                     ![r].detail = resp.detail]
     /\ chain' = IF chain.stage = 1 /\ chain.signup = r /\ resp.status = 200
                 THEN [chain EXCEPT !.stage = 2]
                 ELSE NoChain
  /\ writesSeen' = NoteWrite(r)
  /\ UNCHANGED started

(***************************************************************************)
(* unregister_from_activity                                                *)
(***************************************************************************)
\* Lines 160-165: find_one, then the two checks.
UnregisterRead(r, activity_name, email) ==
  /\ started
  /\ NextRequest(r)
  /\ LET found == FindOne(store, activity_name)
         resp == UnregisterValidate(found, email) IN
     /\ requests' = [requests EXCEPT ![r] =
          [pc |-> IF resp = NoResponse THEN "pending" ELSE "done",
           op |-> "unregister", activity_name |-> activity_name, email |-> email,
           activity |-> found, status |-> resp.status, detail |-> resp.detail]]
     /\ chain' = IF /\ chain.stage = 2
                    /\ requests[chain.signup].activity_name = activity_name
                    /\ requests[chain.signup].email = email
                 THEN [chain EXCEPT !.stage = 3, !.unregister = r]
                 ELSE NoChain
  /\ UNCHANGED << store, started, writesSeen >>

\* Lines 168-176: update_one with $pull, then the response.
UnregisterWrite(r) ==
  /\ Pending(r)
  /\ requests[r].op = "unregister"
  /\ LET res == UpdateOnePull(store, requests[r].activity_name, requests[r].email)
         resp == UnregisterResult(res.modified_count) IN
     /\ store' = res.coll
     /\ requests' = [requests EXCEPT ![r].pc = "done",
                                     ![r].status = resp.status,
                                     ![r].detail = resp.detail]
     /\ chain' = IF chain.stage = 3 /\ chain.unregister = r
                 THEN [chain EXCEPT !.stage = 4]
                 ELSE NoChain
  /\ writesSeen' = NoteWrite(r)
  /\ UNCHANGED started

Next ==
  \/ seed_data
  \/ \E r \in Requests, a \in ActivityNames, e \in Emails : SignupRead(r, a, e)
  \/ \E r \in Requests : SignupWrite(r)
  \/ \E r \in Requests, a \in ActivityNames, e \in Emails : UnregisterRead(r, a, e)
  \/ \E r \in Requests : UnregisterWrite(r)

Spec == Init /\ [][Next]_vars

(***************************************************************************)
(* Vocabulary of the properties.                                           *)
(***************************************************************************)
\* The two invariants of the data model, for one document.
WithinCapacity(doc) == Len(doc.participants) <= doc.max_participants

NoRepeatedEmail(doc) ==
  \A i, j \in DOMAIN doc.participants :
    doc.participants[i] = doc.participants[j] => i = j

\* The step in which request r is received and does its find_one.
SignupReadStep(r) ==
  /\ requests[r].pc = "idle"
  /\ requests'[r].pc # "idle"
  /\ requests'[r].op = "signup"

UnregisterReadStep(r) ==
  /\ requests[r].pc = "idle"
  /\ requests'[r].pc # "idle"
  /\ requests'[r].op = "unregister"

\* The step in which request r does its update_one.
SignupWriteStep(r) ==
  /\ Pending(r)
  /\ requests[r].op = "signup"
  /\ requests'[r].pc = "done"

UnregisterWriteStep(r) ==
  /\ Pending(r)
  /\ requests[r].op = "unregister"
  /\ requests'[r].pc = "done"

\* The step in which the startup hook runs in a process that has not served.
SeedStep == ~started /\ started'

\* Requests u1 and u2 both unregister the same email from the same activity,
\* both found the email at their read, and both have been answered.
UnregisterPair(u1, u2) ==
  /\ u1 # u2
  /\ Done(u1) /\ Done(u2)
  /\ requests[u1].op = "unregister" /\ requests[u2].op = "unregister"
  /\ requests[u1].activity_name = requests[u2].activity_name
  /\ requests[u1].email = requests[u2].email
  /\ requests[u1].status \in {200, 500}
  /\ requests[u2].status \in {200, 500}

\* Both reads came before either write: one of the two wrote while the
\* other stood between its read and its write.
ReadsBeforeWrites(u1, u2) == u2 \in writesSeen[u1] \/ u1 \in writesSeen[u2]

ExactlyOneSucceeds(u1, u2) ==
  \/ requests[u1].status = 200 /\ requests[u2].status = 500
  \/ requests[u1].status = 500 /\ requests[u2].status = 200

\* What an unregister's update_one does to the store: the email is gone from
\* the activity, its other participants and every other document stay.
PullEffect(r) ==
  LET n == requests[r].activity_name
      e == requests[r].email IN
  FindOne(store, n) # << >> =>
    /\ FindOne(store', n) # << >>
    /\ ~Contains(FindOne(store', n)[1].participants, e)
    /\ FindOne(store', n)[1].participants =
         Without(FindOne(store, n)[1].participants, e)
    /\ Len(store') = Len(store)
    /\ \A i \in DOMAIN store : store[i].name # n => store'[i] = store[i]

\* No request has had another request's write between its read and its write.
ServedOneAtATime == \A r \in Requests : writesSeen[r] = {}

DataInvariant == \A i \in DOMAIN store :
  WithinCapacity(store[i]) /\ NoRepeatedEmail(store[i])

(***************************************************************************)
(* C1: in every reachable state, interleavings of requests included, every *)
(* activity has at most max_participants participants.                     *)
(* Stated as written; two signups that both read before either writes take *)
(* the last place twice, so TLC refutes it.                                *)
(***************************************************************************)
C1_CapacityAlways == \A i \in DOMAIN store : WithinCapacity(store[i])

(***************************************************************************)
(* C2: in every reachable state, interleavings of requests included, no    *)
(* email occurs twice in an activity's participants.                       *)
(* Stated as written; two signups of one email that both read before       *)
(* either writes both append it, so TLC refutes it.                        *)
(***************************************************************************)
C2_NoDuplicateAlways == \A i \in DOMAIN store : NoRepeatedEmail(store[i])

(***************************************************************************)
(* C3: a signup whose find_one returns an activity that already lists the  *)
(* email is answered 400 "Student already signed up" without reaching      *)
(* update_one, and the store is unchanged, whether or not the activity is  *)
(* full.                                                                   *)
(***************************************************************************)
C3_AlreadyEnrolled ==
  [][\A r \in Requests :
       ( /\ SignupReadStep(r)
         /\ FindOne(store, requests'[r].activity_name) # << >>
         /\ Contains(FindOne(store, requests'[r].activity_name)[1].participants,
                     requests'[r].email) )
       => /\ requests'[r].pc = "done"
          /\ requests'[r].status = 400
          /\ requests'[r].detail = "Student already signed up"
          /\ store' = store]_vars

\* A signup was answered AlreadyEnrolled for an activity that was full.
C3_Witness ==
  \E r \in Requests :
    /\ Done(r)
    /\ requests[r].op = "signup"
    /\ requests[r].detail = "Student already signed up"
    /\ Len(requests[r].activity[1].participants)
         >= requests[r].activity[1].max_participants

(***************************************************************************)
(* C4: a signup whose find_one returns an activity that does not list the  *)
(* email and has len(participants) >= max_participants is answered 400     *)
(* "Max participants reached" without reaching update_one, and the store   *)
(* is unchanged.                                                           *)
(***************************************************************************)
C4_CapacityExceeded ==
  [][\A r \in Requests :
       ( /\ SignupReadStep(r)
         /\ FindOne(store, requests'[r].activity_name) # << >>
         /\ LET doc == FindOne(store, requests'[r].activity_name)[1] IN
            /\ ~Contains(doc.participants, requests'[r].email)
            /\ Len(doc.participants) >= doc.max_participants )
       => /\ requests'[r].pc = "done"
          /\ requests'[r].status = 400
          /\ requests'[r].detail = "Max participants reached"
          /\ store' = store]_vars

C4_Witness ==
  \E r \in Requests :
    /\ Done(r)
    /\ requests[r].op = "signup"
    /\ requests[r].detail = "Max participants reached"
    /\ ~Contains(requests[r].activity[1].participants, requests[r].email)

(***************************************************************************)
(* C5: an unregister whose find_one returns an activity that does not list *)
(* the email is answered 400 "Student not registered" without reaching     *)
(* update_one, and the whole store is unchanged.                           *)
(***************************************************************************)
C5_NotEnrolled ==
  [][\A r \in Requests :
       ( /\ UnregisterReadStep(r)
         /\ FindOne(store, requests'[r].activity_name) # << >>
         /\ ~Contains(FindOne(store, requests'[r].activity_name)[1].participants,
                      requests'[r].email) )
       => /\ requests'[r].pc = "done"
          /\ requests'[r].status = 400
          /\ requests'[r].detail = "Student not registered"
          /\ store' = store]_vars

C5_Witness ==
  \E r \in Requests :
    /\ Done(r)
    /\ requests[r].op = "unregister"
    /\ requests[r].detail = "Student not registered"

(***************************************************************************)
(* C6: round trip.  When a signup of email e for activity A succeeds and   *)
(* the very next request, with no step of another request in between, is   *)
(* an unregister of e from A, the unregister passes its checks, is         *)
(* answered 200, and the store (A's participants and every other           *)
(* activity) is what it was before the signup.                             *)
(***************************************************************************)
C6_RoundTrip ==
  /\ chain.stage = 3 => Pending(chain.unregister)
  /\ chain.stage = 4 =>
       /\ requests[chain.unregister].status = 200
       /\ store = chain.before

\* A signup immediately followed by the matching unregister has completed.
C6_Witness ==
  /\ chain.stage = 4
  /\ requests[chain.signup].status = 200
  /\ requests[chain.unregister].status = 200

(***************************************************************************)
(* C7: seeding is idempotent.  seed_data on an empty store leaves exactly  *)
(* the 9 initial documents, one per initial activity; on a store holding   *)
(* at least one document it inserts nothing; and once it has run, running  *)
(* it again leaves the store as it is.                                     *)
(***************************************************************************)
C7_SeedIdempotent ==
  /\ [](started => SeedStore(store) = store)
  /\ [][SeedStep =>
          /\ CountDocuments(store) = 0 =>
               /\ store' = initial_activities
               /\ CountDocuments(store') = 9
               /\ \A i, j \in DOMAIN store' :
                    store'[i].name = store'[j].name => i = j
          /\ CountDocuments(store) >= 1 => store' = store
          /\ SeedStore(store') = store']_vars

\* Startup has run on an empty store and no request has been received.
C7_Witness ==
  /\ started
  /\ \A r \in Requests : requests[r] = Idle
  /\ CountDocuments(store) = 9
  /\ store = initial_activities

(***************************************************************************)
(* C8 as written: whenever two unregisters of the same email from the same *)
(* activity both read the email before either writes, exactly one is       *)
(* answered 200 and the other 500; and an unregister's write leaves the    *)
(* email absent and everything else in place.                              *)
(* A third request that writes in between breaks the first part: a third   *)
(* unregister of the email that writes first leaves both answered 500,     *)
(* and a signup of the email that reads and writes between the two writes  *)
(* leaves both answered 200.                                               *)
(***************************************************************************)
C8_AsWritten ==
  /\ [](\A u1, u2 \in Requests :
          (UnregisterPair(u1, u2) /\ ReadsBeforeWrites(u1, u2))
            => ExactlyOneSucceeds(u1, u2))
  /\ [][\A r \in Requests : UnregisterWriteStep(r) => PullEffect(r)]_vars

(***************************************************************************)
(* C8 amended: whenever two unregisters of the same email from the same    *)
(* activity both read the email before either writes, and no third         *)
(* request writes between the read and the write of either, exactly one    *)
(* is answered 200 and the other 500 (never both 200); and every           *)
(* unregister's write leaves the email absent from the activity, its       *)
(* other participants in place and every other activity unchanged.         *)
(***************************************************************************)
C8_ExactlyOneUnregisters ==
  /\ [](\A u1, u2 \in Requests :
          ( /\ UnregisterPair(u1, u2)
            /\ ReadsBeforeWrites(u1, u2)
            /\ writesSeen[u1] \subseteq {u2}
            /\ writesSeen[u2] \subseteq {u1} )
          => ExactlyOneSucceeds(u1, u2))
  /\ [][\A r \in Requests : UnregisterWriteStep(r) => PullEffect(r)]_vars

\* Two such unregisters, undisturbed by a third request, have been answered.
C8_Witness ==
  \E u1, u2 \in Requests :
    /\ UnregisterPair(u1, u2)
    /\ ReadsBeforeWrites(u1, u2)
    /\ writesSeen[u1] \subseteq {u2}
    /\ writesSeen[u2] \subseteq {u1}
    /\ requests[u1].status = 200
    /\ requests[u2].status = 500
    /\ ~Contains(FindOne(store, requests[u1].activity_name)[1].participants,
                 requests[u1].email)

(***************************************************************************)
(* C9: as long as no request has had another request's write between its   *)
(* read and its write, every activity is within capacity and lists no      *)
(* email twice; and the only step that can break either invariant is the   *)
(* write of a signup that another request's write has overtaken.           *)
(***************************************************************************)
C9_SerialKeepsInvariants ==
  /\ [](ServedOneAtATime => DataInvariant)
  /\ [][(DataInvariant /\ ~DataInvariant') =>
          \E r \in Requests : SignupWriteStep(r) /\ writesSeen[r] # {}]_vars

\* Every request of the run was served alone, and together they filled the
\* activity: the last place was taken and a later signup was turned away.
C9_Witness ==
  /\ ServedOneAtATime
  /\ \A r \in Requests : Done(r)
  /\ \E r, s \in Requests :
       /\ requests[r].op = "signup" /\ requests[r].status = 200
       /\ requests[s].op = "signup"
       /\ requests[s].detail \in {"Max participants reached",
                                  "Student already signed up"}
       /\ r < s

(***************************************************************************)
(* C10: no signup is ever answered 500: once its checks pass, its          *)
(* update_one always modifies the document, whatever other requests wrote  *)
(* in between.                                                             *)
(***************************************************************************)
C10_SignupNeverConflicts ==
  \A r \in Requests : requests[r].op = "signup" => requests[r].status # 500

\* A signup was answered 200 although another request wrote between its
\* read and its write.
C10_Witness ==
  \E r \in Requests :
    /\ Done(r)
    /\ requests[r].op = "signup"
    /\ requests[r].status = 200
    /\ writesSeen[r] # {}

=============================================================================
